---- MODULE Spec2Model ----
(***************************************************************************)
(* Build Logger (VS Code extension): the build run and log pipeline of     *)
(* src/src/extension.ts.  Text is modelled as sequences of one-character   *)
(* strings, files as records holding their parsed content, and every event *)
(* handler of the extension as one action (one step of the Node event      *)
(* loop between two awaits).                                               *)
(***************************************************************************)
EXTENDS Integers, Sequences, FiniteSets, TLC

VARIABLES
    runs,      \* per trackBuilds invocation: the closure state of runBuildProcess
    nextRun,   \* number of trackBuilds invocations so far
    sl,        \* per saveLog call: its position and its local variables
    logFile,   \* the file at logFilePath
    tmpFile,   \* the file at logFilePath + ".tmp"
    clock,     \* number of log entries created so far (Date.now() at creation)
    uploads,   \* log entries handed to uploadToFirebase
    faults,    \* faults of the environment so far
    cancels,   \* cancellations requested so far
    chunks,    \* output chunks emitted so far by all child processes
    platform,  \* process.platform
    fnIn,      \* input of the pure function under test (function specifications)
    fnOut,     \* its result
    clr,       \* the clearLogs call: its position and the file it has open
    exp,       \* the exportLogs call: its position and what it has shown
    exportFile,\* the file at the path chosen in the save dialog
    panel,     \* what the dashboard panel shows
    out,       \* the output handlers of one run: their closure variables and the terminal
    workspacePath, \* the module variable workspacePath
    logFilePath,   \* the module variable logFilePath
    disk,      \* the log files and temp files of every log file path
    jobs,      \* per run: the paths it was started with and its background logging
    hook       \* the git.commit handler of the commit-hook variant and its build

vars == <<runs, nextRun, sl, logFile, tmpFile, clock, uploads, faults, cancels, chunks, platform, fnIn, fnOut,
          clr, exp, exportFile, panel, out, workspacePath, logFilePath, disk, jobs, hook>>

\* What the log store never touches, and what the build run never touches.
auxVars == <<out, workspacePath, logFilePath, disk, jobs, hook>>
runVars == <<runs, nextRun, uploads, cancels, chunks, platform, fnIn, fnOut, exp, exportFile, panel, auxVars>>
fnVars == <<fnIn, fnOut>>
storeVars == <<clr, exp, exportFile, panel>>

(***************************************************************************)
(* Program constants.                                                      *)
(***************************************************************************)
MAX_LOG_ENTRIES == 1000
MAX_ERROR_LENGTH == 5000

(***************************************************************************)
(* Bounds of the model.                                                    *)
(***************************************************************************)
MaxRuns == 2        \* trackBuilds invocations per behaviour
MaxChunks == 1      \* output chunks over all child processes
MaxAppends == 2     \* saveLog calls of the log-store harness
MaxFaults == 1      \* faults of the environment: I/O errors, crashes, failed spawns, kills and queries
MaxCancels == 1     \* cancellations requested by the user
Slack == 2          \* text lengths range over MAX_ERROR_LENGTH -Slack .. +Slack
MaxPad == 1         \* leading / trailing whitespace of a generated text

(***************************************************************************)
(* Text helpers (JavaScript String methods on sequences of characters).    *)
(***************************************************************************)
Unset == <<"<unset>">>

SetMin(S) == CHOOSE x \in S : \A y \in S : x <= y
SetMax(S) == CHOOSE x \in S : \A y \in S : x >= y

IsWs(c) == c \in {" ", "\n", "\t", "\r"}

\* The first index at or after i, and the last at or before j, of a character
\* that is not white space.
RECURSIVE FirstNonWs(_, _)
FirstNonWs(s, i) == IF i > Len(s) \/ ~IsWs(s[i]) THEN i ELSE FirstNonWs(s, i + 1)

RECURSIVE LastNonWs(_, _)
LastNonWs(s, j) == IF j < 1 \/ ~IsWs(s[j]) THEN j ELSE LastNonWs(s, j - 1)

\* String.prototype.trim
Trim(s) ==
    LET i == FirstNonWs(s, 1)
        j == LastNonWs(s, Len(s))
    IN  IF i > j THEN <<>> ELSE SubSeq(s, i, j)

\* String.prototype.includes
Includes(s, p) ==
    \E i \in 1..(Len(s) - Len(p) + 1) : SubSeq(s, i, i + Len(p) - 1) = p

\* s.split(" ").pop(): the text after the last space
LastToken(s) ==
    LET sp == {i \in 1..Len(s) : s[i] = " "}
    IN  IF sp = {} THEN s ELSE SubSeq(s, SetMax(sp) + 1, Len(s))

\* a || b on strings: the empty string is falsy
JsOr(a, b) == IF a # <<>> THEN a ELSE b

TruncationMarker ==
    <<".", ".", ".", " ", "[", "t", "r", "u", "n", "c", "a", "t", "e", "d", "]">>

\* Mutant of truncateString: the cut keeps the text but drops the marker.
truncateStringNoMarker(str, maxLength) ==
    IF Len(str) > maxLength THEN SubSeq(str, 1, maxLength) ELSE str

\* truncateString(str, maxLength)
truncateString(str, maxLength) ==
    IF Len(str) > maxLength
    THEN SubSeq(str, 1, maxLength) \o TruncationMarker
    ELSE str

\* logEntry.error: truncateString(buildOutput.trim() || errorOutput.trim(), MAX_ERROR_LENGTH)
LogEntryError(buildOutput, errorOutput) ==
    truncateString(JsOr(Trim(buildOutput), Trim(errorOutput)), MAX_ERROR_LENGTH)

(***************************************************************************)
(* Command resolution.  The workspace is what the existence checks and the *)
(* package.json parse can observe: pkg is "none" (no package.json), "bad"  *)
(* (not parseable) or "ok", and scripts holds the script names whose value *)
(* is truthy.                                                              *)
(***************************************************************************)
sBuild == <<"b", "u", "i", "l", "d">>
sCompile == <<"c", "o", "m", "p", "i", "l", "e">>
sDist == <<"d", "i", "s", "t">>
sDev == <<"d", "e", "v">>
sNpmRun == <<"n", "p", "m", " ", "r", "u", "n">>
sNpmInstall == <<"n", "p", "m", " ", "i", "n", "s", "t", "a", "l", "l">>
sYarn == <<"y", "a", "r", "n">>
sPnpm == <<"p", "n", "p", "m">>
sMvnCompile == <<"m", "v", "n", " ", "c", "o", "m", "p", "i", "l", "e">>
sGradleBuild == <<"g", "r", "a", "d", "l", "e", " ", "b", "u", "i", "l", "d">>
sMake == <<"m", "a", "k", "e">>

NpmRun(script) == sNpmRun \o <<" ">> \o script

Resolved(cmd) == [ok |-> TRUE, cmd |-> cmd, err |-> "none"]
Rejected(why) == [ok |-> FALSE, cmd |-> <<>>, err |-> why]

\* The backquote character (a module string cannot hold it).
BQ == "BQ"

\* The deny-list of extension.js (dangerousPatterns).
dangerousPatterns == {<<";">>, <<"&", "&">>, <<"|", "|">>, <<BQ>>, <<"$", "(">>}

IsDangerous(cmd) == \E p \in dangerousPatterns : Includes(cmd, p)

\* A workspace folder with none of the files auto-detection looks for.
NoProject == [pkg |-> "none", scripts |-> {}, pom |-> FALSE, gradle |-> FALSE, makefile |-> FALSE]

\* Mutant of AutoDetect: with no marker file the command defaults to npm run build.
AutoDetectDefault(ws) == Resolved(NpmRun(sBuild))

\* The branch taken when no command is configured.
AutoDetect(ws) ==
    IF ws.pkg # "none"
    THEN IF ws.pkg = "ok"
         THEN IF sBuild \in ws.scripts THEN Resolved(NpmRun(sBuild))
              ELSE IF sCompile \in ws.scripts THEN Resolved(NpmRun(sCompile))
              ELSE IF sDist \in ws.scripts THEN Resolved(NpmRun(sDist))
              ELSE IF sDev \in ws.scripts THEN Resolved(NpmRun(sDev))
              ELSE Resolved(sNpmInstall)
         ELSE Resolved(sNpmInstall)
    ELSE IF ws.pom THEN Resolved(sMvnCompile)
    ELSE IF ws.gradle THEN Resolved(sGradleBuild)
    ELSE IF ws.makefile THEN Resolved(sMake)
    ELSE Rejected("NoBuildSystemDetected")

\* The npm-script validation: only the "Script ... not found" error is rethrown;
\* "No scripts found in package.json" and a parse error are swallowed.
ScriptNotFound(cmd, ws) ==
    /\ Includes(cmd, sNpmRun) \/ Includes(cmd, sYarn) \/ Includes(cmd, sPnpm)
    /\ ws.pkg = "ok"
    /\ LastToken(cmd) # <<>>
    /\ LastToken(cmd) \notin ws.scripts
    /\ ws.scripts # {}

getValidatedBuildCommandLenient(configured, ws) == Resolved(configured)

\* getValidatedBuildCommand() of extension.ts, over the configured command and the workspace
getValidatedBuildCommand(configured, ws) ==
    LET r == IF Trim(configured) # <<>> THEN Resolved(configured) ELSE AutoDetect(ws)
    IN  IF ~r.ok THEN r
        ELSE IF ScriptNotFound(r.cmd, ws) THEN Rejected("ScriptNotFound")
        ELSE r

(***************************************************************************)
(* The log store.  A file is "missing", "truncated" (opened for writing,   *)
(* its data not yet written: what a reader sees of a partially written     *)
(* file), "garbage" (text that is not a JSON array) or "ok" with the       *)
(* array it holds.                                                         *)
(***************************************************************************)
RunIds == 1..MaxRuns

MissingFile == [st |-> "missing", logs |-> <<>>]
TruncatedFile == [st |-> "truncated", logs |-> <<>>]
GarbageFile == [st |-> "garbage", logs |-> <<>>]
JsonFile(logs) == [st |-> "ok", logs |-> logs]

ParseLogsKeepsJunk(f) == IF f.st = "ok" THEN f.logs ELSE <<[timestamp |-> 0]>>

\* fileData ? JSON.parse(fileData) : [], with the Array.isArray check and the catch
ParseLogs(f) == IF f.st = "ok" THEN f.logs ELSE <<>>

\* What saveLog adds to every entry.
Metadata == [extensionVersion |-> "1.0.0", vscodeVersion |-> "1.98.0", platform |-> platform]

enhancedEntry(logEntry) == logEntry @@ Metadata

\* Mutant of Rotate: the cap is enforced by keeping the oldest entries.
RotateKeepOldest(logs) ==
    IF Len(logs) > MAX_LOG_ENTRIES THEN SubSeq(logs, 1, MAX_LOG_ENTRIES) ELSE logs

\* if (logs.length > MAX_LOG_ENTRIES) logs = logs.slice(logs.length - MAX_LOG_ENTRIES)
Rotate(logs) ==
    IF Len(logs) > MAX_LOG_ENTRIES
    THEN SubSeq(logs, Len(logs) - MAX_LOG_ENTRIES + 1, Len(logs))
    ELSE logs

NoEntry == [timestamp |-> 0]

\* A saveLog call: pc is the await it is suspended at; seen is `logs` as read,
\* logs is `logs` after push and slice; fd says where the file it has open for
\* writing now lives ("tmp", or "log" once another call renamed it, or "orphan");
\* wrote says whether the call has written into the file at logFilePath itself.
IdleCall ==
    [pc |-> "idle", entry |-> NoEntry, seen |-> <<>>, logs |-> <<>>, fd |-> "none", wrote |-> FALSE]

CallOver(c) == sl[c].pc \in {"idle", "done", "failed"}

Finished(c, how) == [sl[c] EXCEPT !.pc = how, !.seen = <<>>, !.logs = <<>>, !.fd = "none"]

\* saveLog(logEntry) up to its first await: existsSync, then readFile, or with
\* no file the push and the call of writeFile.
BeginSaveLog(logEntry) ==
    IF logFile.st = "missing"
    THEN [pc |-> "open", entry |-> logEntry, seen |-> <<>>,
          logs |-> Rotate(Append(<<>>, enhancedEntry(logEntry))), fd |-> "none", wrote |-> FALSE]
    ELSE [pc |-> "read", entry |-> logEntry, seen |-> <<>>, logs |-> <<>>, fd |-> "none",
          wrote |-> FALSE]

\* readFile resolves: parse, push, slice, and the call of writeFile(tempPath, ...)
SaveLogRead(c) ==
    /\ sl[c].pc = "read"
    /\ sl' = [sl EXCEPT ![c].pc = "open",
                        ![c].seen = ParseLogs(logFile),
                        ![c].logs = Rotate(Append(ParseLogs(logFile), enhancedEntry(sl[c].entry)))]
    /\ UNCHANGED <<runVars, logFile, tmpFile, clock, faults, clr>>

\* writeFile opens tempPath with flag "w": the file exists and is empty
SaveLogOpen(c) ==
    /\ sl[c].pc = "open"
    /\ \/ /\ tmpFile' = TruncatedFile
          /\ sl' = [sl EXCEPT ![c].pc = "data", ![c].fd = "tmp"]
          /\ UNCHANGED faults
       \/ /\ faults < MaxFaults
          /\ faults' = faults + 1
          /\ sl' = [sl EXCEPT ![c] = Finished(c, "failed")]
          /\ UNCHANGED tmpFile
    /\ UNCHANGED <<runVars, logFile, clock, clr>>

\* What a file can hold after `logs` was written from offset 0 through a
\* descriptor opened earlier: the array, or, when another call wrote to the same
\* file in between and its text was longer, this text followed by the rest of that.
Written(file, logs) ==
    IF file.st = "truncated" THEN {JsonFile(logs)} ELSE {JsonFile(logs), GarbageFile}

\* writeFile writes JSON.stringify(logs) to the file it opened and closes it
SaveLogData(c) ==
    /\ sl[c].pc = "data"
    /\ \/ /\ sl' = [sl EXCEPT ![c].pc = "rename", ![c].fd = "none", ![c].wrote = (sl[c].fd = "log")]
          /\ tmpFile' \in (IF sl[c].fd = "tmp" THEN Written(tmpFile, sl[c].logs) ELSE {tmpFile})
          /\ logFile' \in (IF sl[c].fd = "log" THEN Written(logFile, sl[c].logs) ELSE {logFile})
          /\ UNCHANGED faults
       \/ /\ faults < MaxFaults
          /\ faults' = faults + 1
          /\ sl' = [sl EXCEPT ![c] = Finished(c, "failed")]
          /\ UNCHANGED <<tmpFile, logFile>>
    /\ UNCHANGED <<runVars, clock, clr>>

\* Where the open files live after tempPath was renamed over logFilePath.
AfterRename(calls, c) ==
    [d \in RunIds |->
        IF d = c THEN Finished(c, "done")
        ELSE IF calls[d].fd = "tmp" THEN [calls[d] EXCEPT !.fd = "log"]
        ELSE IF calls[d].fd = "log" THEN [calls[d] EXCEPT !.fd = "orphan"]
        ELSE calls[d]]

\* rename(tempPath, logFilePath)
SaveLogRename(c) ==
    /\ sl[c].pc = "rename"
    /\ \/ /\ tmpFile.st # "missing"
          /\ logFile' = tmpFile
          /\ tmpFile' = MissingFile
          /\ sl' = AfterRename(sl, c)
          /\ clr' = IF clr.fd = "log" THEN [clr EXCEPT !.fd = "orphan"] ELSE clr
          /\ UNCHANGED faults
       \/ /\ tmpFile.st = "missing"
          /\ sl' = [sl EXCEPT ![c] = Finished(c, "failed")]
          /\ UNCHANGED <<logFile, tmpFile, faults, clr>>
       \/ /\ faults < MaxFaults
          /\ faults' = faults + 1
          /\ sl' = [sl EXCEPT ![c] = Finished(c, "failed")]
          /\ UNCHANGED <<logFile, tmpFile, clr>>
    /\ UNCHANGED <<runVars, clock>>

\* A clearLogs call: pc is the await it is suspended at, fd says where the file
\* it has open for writing now lives ("log", or "orphan" once it was replaced).
IdleClear == [pc |-> "idle", fd |-> "none"]

\* An exportLogs call: pc is the await it is suspended at, shown is its message.
IdleExport == [pc |-> "idle", shown |-> "none"]

\* The dashboard panel before showBuildDashboard.
NoPanel == [kind |-> "none", logs |-> <<>>]

(***************************************************************************)
(* The log store on its own: saveLog called directly, calls overlapping or *)
(* not, and the extension host crashing at any point.                      *)
(***************************************************************************)
\* Entries are `any`: the harness appends records holding a timestamp only.
HarnessEntry(t) == [timestamp |-> t]

OldRecord(i) == enhancedEntry(HarnessEntry(0 - i))

\* n records written by earlier sessions, oldest first
OldLog(n) == [i \in 1..n |-> OldRecord(n - i)]

NearFullLog == OldLog(MAX_LOG_ENTRIES - 1)

SaveLogInvoke(c) ==
    /\ CallOver(c)
    /\ clock < MaxAppends
    /\ clock' = clock + 1
    /\ sl' = [sl EXCEPT ![c] = BeginSaveLog(HarnessEntry(clock + 1))]
    /\ UNCHANGED <<runVars, logFile, tmpFile, faults, clr>>

\* The extension host dies: every call in flight is gone, the files stay.
Crash ==
    /\ faults < MaxFaults
    /\ \/ \E c \in RunIds : ~CallOver(c)
       \/ clr.pc = "data"
       \/ exp.pc = "dialog"
    /\ faults' = faults + 1
    /\ sl' = [c \in RunIds |-> IdleCall]
    /\ clr' = IdleClear
    /\ exp' = IdleExport
    /\ UNCHANGED <<runs, nextRun, uploads, cancels, chunks, platform, auxVars, fnVars, exportFile, panel,
                   logFile, tmpFile, clock>>

(***************************************************************************)
(* The state common to every specification: nothing has run yet.           *)
(***************************************************************************)
NoRun ==
    [st |-> "none", child |-> "none", command |-> <<>>, buildOutput |-> <<>>,
     errorOutput |-> <<>>, code |-> "none", cancelled |-> FALSE, killed |-> FALSE,
     signals |-> {}, killTimer |-> FALSE, rejectTimer |-> FALSE, bg |-> "none",
     entry |-> NoEntry, reports |-> {}, upload |-> "none"]

\* let outputTimer: no timer has been set
NoTimer == [armed |-> FALSE, text |-> <<>>]

\* No child process has been spawned: let buildOutput = "", let errorOutput = "",
\* let processExited = false, nothing sent to the terminal.
IdleOut ==
    [variant |-> "none", phase |-> "none", received |-> <<>>, buildOutput |-> <<>>,
     errorOutput |-> <<>>, progress |-> <<>>, outputTimer |-> NoTimer,
     processExited |-> FALSE, terminal |-> <<>>, unsent |-> <<>>, code |-> "none",
     error |-> Unset]

\* The directories getCorrectWorkspacePath() can return, and the values of the
\* setting build-logger.logFilePath ("" when it is not set).
Folders == {"/w1", "/w2"}
ConfigLogPaths == {"", "logs.json"}

\* configLogPath ? path.resolve(workspacePath, configLogPath)
\*               : path.join(workspacePath, "build_logs.json")
LogFilePathOf(ws, configLogPath) ==
    <<ws, IF configLogPath # "" THEN configLogPath ELSE "build_logs.json">>

\* logFilePath + ".tmp"
TempPathOf(p) == p \o <<".tmp">>

LogPaths == {LogFilePathOf(ws, c) : ws \in Folders, c \in ConfigLogPaths}
DiskPaths == LogPaths \cup {TempPathOf(p) : p \in LogPaths}

NoPath == <<>>

NoJob ==
    [st |-> "none", cwd |-> "", startedLog |-> NoPath, entry |-> NoEntry,
     logs |-> <<>>, readPath |-> NoPath, tempPath |-> NoPath, renamedTo |-> NoPath]

\* activate() in the folder /w1 with the setting not set
ActivatedFolder == "/w1"

\* The git.commit handler is registered and has not been invoked.
IdleHook ==
    [pc |-> "idle", choice |-> "none", result |-> "none", child |-> "none", code |-> "none",
     output |-> <<>>, logging |-> "none", entry |-> NoEntry, invocations |-> 0,
     commits |-> {}, reports |-> {}]

Quiet ==
    /\ hook = IdleHook
    /\ out = IdleOut
    /\ workspacePath = ActivatedFolder
    /\ logFilePath = LogFilePathOf(ActivatedFolder, "")
    /\ disk = [p \in DiskPaths |-> MissingFile]
    /\ jobs = [r \in RunIds |-> NoJob]
    /\ runs = [r \in RunIds |-> NoRun]
    /\ nextRun = 0
    /\ sl = [c \in RunIds |-> IdleCall]
    /\ tmpFile = MissingFile
    /\ clock = 0
    /\ uploads = {}
    /\ faults = 0
    /\ cancels = 0
    /\ chunks = 0
    /\ clr = IdleClear
    /\ exp = IdleExport
    /\ exportFile = MissingFile
    /\ panel = NoPanel

InitLog ==
    /\ Quiet
    /\ platform = "linux"
    /\ logFile \in {MissingFile, GarbageFile, JsonFile(NearFullLog)}
    /\ fnIn = Unset
    /\ fnOut = Unset

NextLog ==
    \/ \E c \in RunIds : SaveLogInvoke(c)
    \/ \E c \in RunIds : SaveLogRead(c)
    \/ \E c \in RunIds : SaveLogOpen(c)
    \/ \E c \in RunIds : SaveLogData(c)
    \/ \E c \in RunIds : SaveLogRename(c)
    \/ Crash

SpecLog == InitLog /\ [][NextLog]_vars

(***************************************************************************)
(* C1: the log never holds more than MAX_LOG_ENTRIES records, and an       *)
(* append that publishes its own array over the log it read leaves the     *)
(* most recent MAX_LOG_ENTRIES records of the old log followed by the new  *)
(* record, in their order.                                                 *)
(***************************************************************************)
Min2(a, b) == IF a <= b THEN a ELSE b

C1_Publishes(c) ==
    /\ sl[c].pc = "rename"
    /\ sl'[c].pc = "done"
    /\ ParseLogs(logFile) = sl[c].seen
    /\ tmpFile = JsonFile(sl[c].logs)

C1_Rotation ==
    /\ [](\A f \in {logFile, tmpFile} : Len(ParseLogs(f)) <= MAX_LOG_ENTRIES)
    /\ [][\A c \in RunIds : C1_Publishes(c) =>
            LET old == ParseLogs(logFile)
                new == ParseLogs(logFile')
                n == Len(new)
            IN  /\ logFile'.st = "ok"
                /\ n = Min2(Len(old) + 1, MAX_LOG_ENTRIES)
                /\ new[n] = enhancedEntry(sl[c].entry)
                /\ \A i \in 1..(n - 1) : new[i] = old[Len(old) - (n - 1) + i]]_vars

\* An append has evicted the oldest record of a full log.
C1_Witness ==
    /\ \E c \in RunIds : sl[c].pc = "done"
    /\ logFile.st = "ok"
    /\ Len(logFile.logs) = MAX_LOG_ENTRIES
    /\ logFile.logs[1] = NearFullLog[2]
    /\ logFile.logs[MAX_LOG_ENTRIES] = enhancedEntry(HarnessEntry(2))

(***************************************************************************)
(* C2: the file at logFilePath only ever changes from one complete array   *)
(* to another: a reader never finds it truncated or partially written.     *)
(***************************************************************************)
C2_AtomicReplace == [][logFile' # logFile => logFile'.st = "ok"]_vars

(***************************************************************************)
(* The error text of a log entry, as a function of the output a run has    *)
(* received: a first chunk on stdout, then possibly a second chunk on      *)
(* either stream (stderr text is appended to both buffers).                *)
(***************************************************************************)
Alphabet == <<"a", "b", "c">>

Text(n, k) == [i \in 1..n |-> Alphabet[((i * k) % Len(Alphabet)) + 1]]

Pad(n) == [i \in 1..n |-> " "]

TextLengths ==
    (0..Slack) \cup ((MAX_ERROR_LENGTH - Slack)..(MAX_ERROR_LENGTH + Slack))

FirstChunks == {Pad(l) \o Text(n, k) : l \in 0..MaxPad, n \in TextLengths, k \in 1..2}

SecondChunks ==
    {[stream |-> st, text |-> t] :
        st \in {"stdout", "stderr"}, t \in {<<>>, <<"e">>, <<"\n">>}}

Buffers(first, second) ==
    [buildOutput |-> first \o second.text,
     errorOutput |-> IF second.stream = "stderr" THEN second.text ELSE <<>>]

InitTrunc ==
    /\ Quiet
    /\ platform = "linux"
    /\ logFile = MissingFile
    /\ fnIn \in {Buffers(a, b) : a \in FirstChunks, b \in SecondChunks}
    /\ fnOut = Unset

BuildLogEntryError ==
    /\ fnOut = Unset
    /\ fnOut' = LogEntryError(fnIn.buildOutput, fnIn.errorOutput)
    /\ UNCHANGED <<runs, nextRun, sl, logFile, tmpFile, clock, uploads, faults, cancels, chunks, platform, auxVars, fnIn, storeVars>>

NextTrunc == BuildLogEntryError

SpecTrunc == InitTrunc /\ [][NextTrunc]_vars

(***************************************************************************)
(* C10: the error field is the error text itself when that has at most     *)
(* 5000 characters, and otherwise its first 5000 characters followed by    *)
(* the marker "... [truncated]".                                           *)
(***************************************************************************)
ErrorText == JsOr(Trim(fnIn.buildOutput), Trim(fnIn.errorOutput))

C10_Marker == <<".", ".", ".", " ", "[", "t", "r", "u", "n", "c", "a", "t", "e", "d", "]">>

C10_Truncation ==
    LET s == ErrorText
    IN  fnOut # Unset =>
            IF Len(s) > 5000
            THEN /\ Len(fnOut) = 5000 + Len(C10_Marker)
                 /\ SubSeq(fnOut, 1, 5000) = SubSeq(s, 1, 5000)
                 /\ SubSeq(fnOut, 5001, Len(fnOut)) = C10_Marker
            ELSE fnOut = s

\* A text longer than the limit has been cut, and one of exactly the limit kept.
C10_Witness ==
    /\ fnOut # Unset
    /\ Len(ErrorText) = MAX_ERROR_LENGTH + 1
    /\ Len(fnOut) = MAX_ERROR_LENGTH + 15

(***************************************************************************)
(* The build run.  A run is one invocation of trackBuilds; runs[r].st is   *)
(* the promise runBuildProcess awaits: "pending", "resolved", or the       *)
(* reason it was rejected with first.                                      *)
(***************************************************************************)
\* The settings and workspaces of the runs: a configured command, or none in a
\* folder without a build system.
ConfigCommands == {<<>>, sMake}

Workspaces == {NoProject}

ExitCodes == {"0", "1", "null"}

\* What a query of the context collector comes back with: text, or a failure.
QueryFailed == "<failed>"
BranchQueries == {"main", QueryFailed}
DeveloperQueries == {"dev", QueryFailed}

\* The number of failed queries among the given results.
Failures(results) == Cardinality({i \in 1..Len(results) : results[i] = QueryFailed})

Report(run, what) == [run EXCEPT !.reports = @ \cup {what}]

\* resolve(): settles the promise unless it is settled already
Resolve(run) == IF run.st = "pending" THEN [run EXCEPT !.st = "resolved"] ELSE run

\* reject(reason): settles the promise unless it is settled already; the catch of
\* runBuildProcess ("Build failed: ...") and then the catch of trackBuilds
\* ("Failed to track builds: ...") report the reason.
Reject(run, reason) ==
    IF run.st = "pending"
    THEN [run EXCEPT !.st = reason,
                     !.reports = @ \cup {"Build failed: " \o reason,
                                         "Failed to track builds: " \o reason}]
    ELSE run

ErrorHandlerAsExit(run, enoent) ==
    [Report(run, "Build failed with exit code") EXCEPT !.bg = "collect", !.rejectTimer = TRUE]

\* buildProcess.on("error", ...)
ErrorHandler(run, enoent) ==
    IF enoent
    THEN Reject(Report(run, "Command not found"), "command not found")
    ELSE Reject(Report(run, "Build process error"), "process error")

IsSuccessOrSignal(code) == code \in {"0", "null"}

\* code === 0
IsSuccess(code) == code = "0"

\* trackBuilds() through runBuildProcess() up to the return of the Promise
\* executor: the command is resolved twice, and a failure of the second call
\* is thrown before spawn.  A failed spawn emits "error" on the next tick,
\* before any other event, so its handler is part of this step.
TrackBuilds(configured, ws, spawned) ==
    /\ nextRun < MaxRuns
    /\ nextRun' = nextRun + 1
    /\ spawned \/ faults < MaxFaults
    /\ LET r == nextRun + 1
           res == getValidatedBuildCommand(configured, ws)
           started == [NoRun EXCEPT !.st = "pending", !.command = res.cmd,
                                    !.reports = {"Build Logger Activated", "Running"}]
       IN  /\ runs' = [runs EXCEPT ![r] =
                IF ~res.ok
                THEN [NoRun EXCEPT !.st = "config error",
                                   !.reports = {"Build command issue",
                                                "Build failed: config error",
                                                "Failed to track builds: config error"}]
                ELSE IF spawned
                THEN [started EXCEPT !.child = "running"]
                ELSE ErrorHandler([started EXCEPT !.child = "failed"], TRUE)]
           /\ faults' = IF res.ok /\ ~spawned THEN faults + 1 ELSE faults
    /\ UNCHANGED <<sl, logFile, tmpFile, clock, uploads, cancels, chunks, platform, auxVars, fnVars, storeVars>>

\* buildProcess.stdout.on("data", ...)
StdoutData(r) ==
    /\ runs[r].child \in {"running", "exited"}
    /\ chunks < MaxChunks
    /\ chunks' = chunks + 1
    /\ runs' = [runs EXCEPT ![r].buildOutput = @ \o <<"o">>]
    /\ UNCHANGED <<nextRun, sl, logFile, tmpFile, clock, uploads, faults, cancels, platform, auxVars, fnVars, storeVars>>

\* buildProcess.stderr.on("data", ...)
StderrData(r) ==
    /\ runs[r].child \in {"running", "exited"}
    /\ chunks < MaxChunks
    /\ chunks' = chunks + 1
    /\ runs' = [runs EXCEPT ![r].errorOutput = @ \o <<"e">>, ![r].buildOutput = @ \o <<"e">>]
    /\ UNCHANGED <<nextRun, sl, logFile, tmpFile, clock, uploads, faults, cancels, platform, auxVars, fnVars, storeVars>>

\* The exit handler of extension.js: the queries and saveLog are awaited first,
\* and "Build failed with exit code" is shown only after saveLog has returned.
BuildFailedLogsFirst(exited) == [exited EXCEPT !.bg = "collect", !.rejectTimer = TRUE]

\* The else branch of the exit handler: showErrorMessage("Build failed with
\* exit code ..."), then Promise.resolve().then(<background logging>), then
\* setTimeout(reject, 100).
BuildFailed(exited) ==
    [Report(exited, "Build failed with exit code") EXCEPT !.bg = "collect", !.rejectTimer = TRUE]

\* buildProcess.on("exit", ...): success resolves; a failure is reported, the
\* background logging starts its three queries and the reject is delayed 100 ms.
\* The code is null when a signal ended the child; the only signals are the
\* ones the cancel handler sends.
ChildExit(r, code) ==
    /\ runs[r].child = "running"
    /\ code = "null" => runs[r].signals # {}
    /\ LET exited == [runs[r] EXCEPT !.child = "exited", !.code = code]
       IN  runs' = [runs EXCEPT ![r] =
                IF IsSuccess(code)
                THEN Resolve(Report(exited, "Build Successful"))
                ELSE BuildFailed(exited)]
    /\ UNCHANGED <<nextRun, sl, logFile, tmpFile, clock, uploads, faults, cancels, chunks, platform, auxVars, fnVars, storeVars>>

\* setTimeout(() => reject(new Error(errorMessage)), 100)
RejectTimer(r) ==
    /\ runs[r].rejectTimer
    /\ runs' = [runs EXCEPT ![r] = Reject([runs[r] EXCEPT !.rejectTimer = FALSE], "build failed")]
    /\ UNCHANGED <<nextRun, sl, logFile, tmpFile, clock, uploads, faults, cancels, chunks, platform, auxVars, fnVars, storeVars>>

\* buildProcess.kill(signal): "sent" sets killed; "gone" (the process has exited)
\* returns false; "denied" emits "error" synchronously.
KillOutcomes(run) ==
    IF run.child # "running" THEN {"gone"}
    ELSE IF faults < MaxFaults THEN {"sent", "denied"}
    ELSE {"sent"}

Kill(run, signal, outcome) ==
    IF outcome = "sent" THEN [run EXCEPT !.killed = TRUE, !.signals = @ \cup {signal}]
    ELSE IF outcome = "denied" THEN ErrorHandler(run, FALSE)
    ELSE run

\* token.onCancellationRequested(...): the progress notification can be
\* cancelled while the promise is pending.
Cancel(r, outcome) ==
    /\ runs[r].st = "pending"
    /\ cancels < MaxCancels
    /\ cancels' = cancels + 1
    /\ outcome \in (IF platform = "win32" THEN {"taskkill"} ELSE KillOutcomes(runs[r]))
    /\ LET asked == [runs[r] EXCEPT !.cancelled = TRUE]
           killing ==
               IF platform = "win32"
               THEN [asked EXCEPT !.signals = @ \cup {"taskkill"}]
               ELSE [Kill(asked, "SIGTERM", outcome) EXCEPT !.killTimer = TRUE]
       IN  runs' = [runs EXCEPT ![r] = Reject(killing, "cancelled")]
    /\ faults' = IF outcome = "denied" THEN faults + 1 ELSE faults
    /\ UNCHANGED <<nextRun, sl, logFile, tmpFile, clock, uploads, chunks, platform, auxVars, fnVars, storeVars>>

\* setTimeout(() => { if (!buildProcess.killed) buildProcess.kill("SIGKILL") }, 5000)
KillTimer(r, outcome) ==
    /\ runs[r].killTimer
    /\ outcome \in (IF runs[r].killed THEN {"none"} ELSE KillOutcomes(runs[r]))
    /\ LET fired == [runs[r] EXCEPT !.killTimer = FALSE]
       IN  runs' = [runs EXCEPT ![r] =
                IF ~fired.killed THEN Kill(fired, "SIGKILL", outcome) ELSE fired]
    /\ faults' = IF outcome = "denied" THEN faults + 1 ELSE faults
    /\ UNCHANGED <<nextRun, sl, logFile, tmpFile, clock, uploads, cancels, chunks, platform, auxVars, fnVars, storeVars>>

getGitBranchRaw(result) == result

\* getGitBranch(): the trimmed output, "unknown" when the query fails
getGitBranch(result) == IF result = QueryFailed THEN "unknown" ELSE result

\* getDeveloperName(): the git user name, "Unknown Developer" when the query fails
getDeveloperName(result) == IF result = QueryFailed THEN "Unknown Developer" ELSE result

\* The logEntry built once Promise.all of the queries has resolved.
LogEntry(run, time, branchName, developer) ==
    [timestamp |-> time,
     error |-> LogEntryError(run.buildOutput, run.errorOutput),
     branch |-> branchName,
     developer |-> developer,
     exitCode |-> run.code,
     command |-> run.command]

\* Promise.all([getGitBranch(), getDeveloperName(), getGitRemoteUrl()]) resolves:
\* the entry is built and saveLog is called.
ContextCollected(r, branch, name) ==
    /\ runs[r].bg = "collect"
    /\ faults + Failures(<<branch, name>>) <= MaxFaults
    /\ faults' = faults + Failures(<<branch, name>>)
    /\ clock' = clock + 1
    /\ LET entry == LogEntry(runs[r], clock + 1, getGitBranch(branch), getDeveloperName(name))
       IN  /\ runs' = [runs EXCEPT ![r].bg = "saving", ![r].entry = entry]
           /\ sl' = [sl EXCEPT ![r] = BeginSaveLog(entry)]
    /\ UNCHANGED <<nextRun, logFile, tmpFile, uploads, cancels, chunks, platform, auxVars, fnVars, storeVars>>

SaveLogSettled(call) == call.pc \in {"done", "failed"}

\* await saveLog(logEntry) returns rather than throws
SaveLogReturned(call) == call.pc = "done"

\* await saveLog(logEntry) returns, and uploadToFirebase(logEntry) is called; or
\* it throws: saveLog has shown "Error saving build log" and the catch logs it.
AfterSaveLog(r) ==
    /\ runs[r].bg = "saving"
    /\ sl[r].pc \in {"done", "failed"}
    /\ sl' = [sl EXCEPT ![r] = IdleCall]
    /\ IF SaveLogReturned(sl[r])
       THEN /\ runs' = [runs EXCEPT ![r].bg = "upload"]
            /\ uploads' = uploads \cup {runs[r].entry.timestamp}
       ELSE /\ runs' = [runs EXCEPT ![r] = [Report(runs[r], "Error saving build log")
                                               EXCEPT !.bg = "done"]]
            /\ UNCHANGED uploads
    /\ UNCHANGED <<nextRun, logFile, tmpFile, clock, faults, cancels, chunks, platform, auxVars, fnVars, storeVars>>

UploadPropagates(run) == Reject(Report(run, "Upload failed"), "upload failed")

\* The catch of uploadToFirebase (firebaseService.ts): the error is written to
\* the console and the call returns.
UploadCaught(run) == [run EXCEPT !.bg = "done", !.upload = "failed"]

\* await uploadToFirebase(logEntry) returns, after addDoc succeeded or failed
UploadSettled(r, ok) ==
    /\ runs[r].bg = "upload"
    /\ ok \/ faults < MaxFaults
    /\ faults' = IF ok THEN faults ELSE faults + 1
    /\ runs' = [runs EXCEPT ![r] =
            IF ok THEN [runs[r] EXCEPT !.bg = "done", !.upload = "ok"] ELSE UploadCaught(runs[r])]
    /\ UNCHANGED <<nextRun, sl, logFile, tmpFile, clock, uploads, cancels, chunks, platform, auxVars, fnVars, storeVars>>

Init ==
    /\ Quiet
    /\ platform \in {"linux", "win32"}
    /\ logFile = MissingFile
    /\ fnIn = Unset
    /\ fnOut = Unset

Next ==
    \/ \E c \in ConfigCommands, w \in Workspaces, ok \in BOOLEAN : TrackBuilds(c, w, ok)
    \/ \E r \in RunIds : StdoutData(r)
    \/ \E r \in RunIds : StderrData(r)
    \/ \E r \in RunIds, code \in ExitCodes : ChildExit(r, code)
    \/ \E r \in RunIds : RejectTimer(r)
    \/ \E r \in RunIds, o \in {"sent", "denied", "gone", "taskkill"} : Cancel(r, o)
    \/ \E r \in RunIds, o \in {"sent", "denied", "gone", "none"} : KillTimer(r, o)
    \/ \E r \in RunIds, b \in BranchQueries, d \in DeveloperQueries : ContextCollected(r, b, d)
    \/ \E r \in RunIds : SaveLogRead(r)
    \/ \E r \in RunIds : SaveLogOpen(r)
    \/ \E r \in RunIds : SaveLogData(r)
    \/ \E r \in RunIds : SaveLogRename(r)
    \/ \E r \in RunIds : AfterSaveLog(r)
    \/ \E r \in RunIds, ok \in BOOLEAN : UploadSettled(r, ok)

Spec == Init /\ [][Next]_vars

(***************************************************************************)
(* Command resolution on its own: getValidatedBuildCommand applied to a    *)
(* configured command and a workspace.                                     *)
(***************************************************************************)
ResolveCommands ==
    {<<>>, <<" ">>, sMake, <<" ">> \o sMake \o <<" ">>,
     sMake \o <<";", "x">>, sMake \o <<"&", "&", "x">>, sMake \o <<"|", "|", "x">>,
     <<BQ, "x", BQ>>, <<"$", "(", "x", ")">>,
     NpmRun(sBuild), NpmRun(sDev)}

ResolveWorkspaces ==
    {w \in [pkg : {"none", "bad", "ok"}, scripts : SUBSET {sBuild, sCompile, sDist, sDev},
            pom : BOOLEAN, gradle : BOOLEAN, makefile : BOOLEAN] :
        w.scripts # {} => w.pkg = "ok"}

InitResolve ==
    /\ Quiet
    /\ platform = "linux"
    /\ logFile = MissingFile
    /\ fnIn \in [configured : ResolveCommands, ws : ResolveWorkspaces]
    /\ fnOut = Unset

ResolveCommand ==
    /\ Len(fnOut) = 1
    /\ fnOut' = <<"resolved", getValidatedBuildCommand(fnIn.configured, fnIn.ws)>>
    /\ UNCHANGED <<runs, nextRun, sl, logFile, tmpFile, clock, uploads, faults, cancels, chunks, platform, auxVars, fnIn, storeVars>>

NextResolve == ResolveCommand

SpecResolve == InitResolve /\ [][NextResolve]_vars

(***************************************************************************)
(* Properties of the build run.                                            *)
(***************************************************************************)
\* The positions of the log file's records that were built for run r.
RecordsOf(r) ==
    LET logs == ParseLogs(logFile)
    IN  {i \in DOMAIN logs : logs[i].timestamp = runs[r].entry.timestamp}

\* C3: once the background logging of a failed run is over, and no fault of
\* the environment has occurred, the log holds exactly one record of that run
\* and the failure has been reported.
C3_OneRecordPerFailure ==
    \A r \in RunIds :
        (faults = 0 /\ runs[r].bg = "done")
            => /\ Cardinality(RecordsOf(r)) = 1
               /\ "Build failed with exit code" \in runs[r].reports

\* C4: a run that was cancelled while its child was running (the child was
\* sent the signal), with no fault of the environment, ends as cancelled and
\* never has a record in the log, whatever its child does afterwards.
C4_CancelledNotPersisted ==
    \A r \in RunIds :
        (faults = 0 /\ runs[r].cancelled /\ runs[r].killed)
            => (runs[r].st = "cancelled" /\ RecordsOf(r) = {})

\* C5: a child that exits with code 0 is handled as a success (reported as
\* successful, the promise resolved unless the run was cancelled before, no
\* background logging, no record); a child that exits with any other code is
\* handled as a failure, and every record of that run carries that exit code.
C5_Classification ==
    \A r \in RunIds :
        LET logs == ParseLogs(logFile)
        IN  /\ runs[r].code = "0" =>
                /\ "Build Successful" \in runs[r].reports
                /\ "Build failed with exit code" \notin runs[r].reports
                /\ ~runs[r].cancelled => runs[r].st = "resolved"
                /\ runs[r].bg = "none"
                /\ RecordsOf(r) = {}
            /\ runs[r].code \notin {"none", "0"} =>
                /\ "Build failed with exit code" \in runs[r].reports
                /\ "Build Successful" \notin runs[r].reports
                /\ ~runs[r].cancelled => runs[r].st \in {"pending", "build failed"}
                /\ runs[r].bg # "none"
                /\ \A i \in RecordsOf(r) : logs[i].exitCode = runs[r].code

C5_Witness ==
    \E r, q \in RunIds :
        /\ runs[r].code = "1"
        /\ RecordsOf(r) # {}
        /\ runs[q].code = "0"
        /\ runs[q].st = "resolved"

\* C6: a run whose child could not be spawned is reported as "Command not
\* found" and not as a failed build, its promise is rejected, no background
\* logging is started and no record of it is ever in the log; the step that
\* handles the spawn failure leaves the log store alone.
C6_SpawnFailure ==
    /\ [](\A r \in RunIds :
            runs[r].child = "failed" =>
                /\ "Command not found" \in runs[r].reports
                /\ "Build failed with exit code" \notin runs[r].reports
                /\ runs[r].st = "command not found"
                /\ runs[r].bg = "none"
                /\ runs[r].entry = NoEntry
                /\ RecordsOf(r) = {})
    /\ [][(nextRun' # nextRun /\ runs'[nextRun'].child = "failed")
            => UNCHANGED <<sl, logFile, tmpFile>>]_vars

C6_Witness ==
    \E r, q \in RunIds :
        /\ runs[r].child = "failed"
        /\ runs[q].bg = "done"
        /\ RecordsOf(q) # {}

\* C7: a command that getValidatedBuildCommand returns contains none of the
\* dangerous patterns and is not empty after trimming.
C7_DenyList ==
    (Len(fnOut) = 2 /\ fnOut[2].ok)
        => (~IsDangerous(fnOut[2].cmd) /\ Trim(fnOut[2].cmd) # <<>>)

\* C8: at most one build child process is running at any time.
C8_AtMostOneActive ==
    Cardinality({r \in RunIds : runs[r].child = "running"}) <= 1

\* C9: a run started with no configured command in a folder without a build
\* system ends in a configuration error without spawning and without touching
\* the log store; such a run has reported the error, has no child, has been
\* sent no signal, has started no background logging and has no record.
C9_ConfigError ==
    /\ [](\A r \in RunIds :
            runs[r].st = "config error" =>
                /\ {"Build command issue", "Build failed: config error",
                    "Failed to track builds: config error"} \subseteq runs[r].reports
                /\ "Running" \notin runs[r].reports
                /\ runs[r].child = "none"
                /\ runs[r].signals = {}
                /\ runs[r].bg = "none"
                /\ RecordsOf(r) = {})
    /\ [][\A spawned \in BOOLEAN :
            TrackBuilds(<<>>, NoProject, spawned) =>
                /\ runs'[nextRun'].st = "config error"
                /\ runs'[nextRun'].child = "none"
                /\ UNCHANGED <<sl, logFile, tmpFile>>]_vars

C9_Witness ==
    \E r, q \in RunIds :
        /\ runs[r].st = "config error"
        /\ runs[q].bg = "done"
        /\ RecordsOf(q) # {}

\* C11: when the branch query fails the entry handed to saveLog has branch
\* "unknown", when the developer query fails it has developer "Unknown
\* Developer", and saveLog is called with that entry all the same; a run on its
\* own whose entry holds a sentinel, once its background logging is over
\* without a save error, has left exactly that record in the log.
C11_Sentinels ==
    /\ [][\A r \in RunIds, b \in BranchQueries, d \in DeveloperQueries :
            ContextCollected(r, b, d) =>
                /\ b = QueryFailed => runs'[r].entry.branch = "unknown"
                /\ d = QueryFailed => runs'[r].entry.developer = "Unknown Developer"
                /\ sl'[r].pc \in {"read", "open"}
                /\ sl'[r].entry = runs'[r].entry]_vars
    /\ [](\A r \in RunIds :
            ( /\ nextRun = 1
              /\ runs[r].bg = "done"
              /\ "Error saving build log" \notin runs[r].reports
              /\ \/ runs[r].entry.branch = "unknown"
                 \/ runs[r].entry.developer = "Unknown Developer" )
                => ParseLogs(logFile) = <<enhancedEntry(runs[r].entry)>>)

C11_Witness ==
    \E r \in RunIds :
        /\ runs[r].bg = "done"
        /\ RecordsOf(r) # {}
        /\ \A i \in RecordsOf(r) : ParseLogs(logFile)[i].branch = "unknown"

(***************************************************************************)
(* The log store with its other users: the dashboard that reads the log,   *)
(* exportLogs, and clearLogs (extension.js), next to saveLog calls.        *)
(***************************************************************************)
\* A file holding JSON that is not an array.
ObjectFile == [st |-> "nonarray", logs |-> <<>>]

\* loadAndDisplayLogs(panel): a missing or empty file and a non-array give the
\* dashboard of no logs; JSON.parse throwing is caught by the function's own
\* catch, which shows the error page.
LoadedPanel(f) ==
    IF f.st = "garbage"
    THEN [kind |-> "error", logs |-> <<>>]
    ELSE [kind |-> "dashboard", logs |-> (IF f.st = "ok" THEN f.logs ELSE <<>>)]

\* showBuildDashboard(): a new panel, filled by loadAndDisplayLogs
LoadAndDisplayLogs ==
    /\ panel' = LoadedPanel(logFile)
    /\ UNCHANGED <<runs, nextRun, sl, logFile, tmpFile, clock, uploads, faults, cancels, chunks,
                   platform, auxVars, fnVars, clr, exp, exportFile>>

NotEmptyArray == <<OldRecord(0)>>

\* JSON.stringify([], null, 2)
EmptyArray == <<>>

\* clearLogs(): writeFile(logFilePath, ...) opens the log file itself with flag
\* "w": the file exists and is empty.
ClearLogsOpen ==
    /\ clr.pc \in {"idle", "done", "failed"}
    /\ \/ /\ logFile' = TruncatedFile
          /\ clr' = [pc |-> "data", fd |-> "log"]
          /\ UNCHANGED faults
       \/ /\ faults < MaxFaults
          /\ faults' = faults + 1
          /\ clr' = [pc |-> "failed", fd |-> "none"]
          /\ UNCHANGED logFile
    /\ UNCHANGED <<runVars, sl, tmpFile, clock>>

\* writeFile writes the empty array to the file it opened and closes it
ClearLogsData ==
    /\ clr.pc = "data"
    /\ \/ /\ logFile' \in (IF clr.fd = "log" THEN Written(logFile, EmptyArray) ELSE {logFile})
          /\ clr' = [pc |-> "done", fd |-> "none"]
          /\ UNCHANGED faults
       \/ /\ faults < MaxFaults
          /\ faults' = faults + 1
          /\ clr' = [pc |-> "failed", fd |-> "none"]
          /\ UNCHANGED logFile
    /\ UNCHANGED <<runVars, sl, tmpFile, clock>>

ExportBeginUnchecked(file) == [pc |-> "dialog", shown |-> "none"]

\* exportLogs() up to its first await: existsSync, the warning, showSaveDialog
ExportBegin(file) ==
    IF file.st = "missing"
    THEN [pc |-> "done", shown |-> "No logs available to export"]
    ELSE [pc |-> "dialog", shown |-> "none"]

ExportLogsInvoke ==
    /\ exp.pc \in {"idle", "done"}
    /\ exp' = ExportBegin(logFile)
    /\ UNCHANGED <<runs, nextRun, sl, logFile, tmpFile, clock, uploads, faults, cancels, chunks,
                   platform, auxVars, fnVars, clr, exportFile, panel>>

CopyFileParsed(src) == JsonFile(ParseLogs(src))

\* fs.promises.copyFile(src, dest): dest gets the bytes of src
CopyFile(src) == src

\* showSaveDialog resolves: with no path chosen nothing is done; else copyFile,
\* which either copies or fails, leaving the destination as it was or removed.
ExportDialog(chosen, copied) ==
    /\ exp.pc = "dialog"
    /\ IF ~chosen
       THEN /\ copied
            /\ exp' = [pc |-> "done", shown |-> "none"]
            /\ UNCHANGED <<exportFile, faults>>
       ELSE IF copied /\ logFile.st # "missing"
       THEN /\ exportFile' = CopyFile(logFile)
            /\ exp' = [pc |-> "done", shown |-> "Logs exported"]
            /\ UNCHANGED faults
       ELSE /\ ~copied
            /\ faults < MaxFaults
            /\ faults' = faults + 1
            /\ exportFile' \in {exportFile, MissingFile}
            /\ exp' = [pc |-> "done", shown |-> "Failed to export logs"]
    /\ UNCHANGED <<runs, nextRun, sl, logFile, tmpFile, clock, uploads, cancels, chunks,
                   platform, auxVars, fnVars, clr, panel>>

InitStore ==
    /\ Quiet
    /\ platform = "linux"
    /\ logFile \in {MissingFile, TruncatedFile, GarbageFile, ObjectFile, JsonFile(OldLog(1))}
    /\ fnIn = Unset
    /\ fnOut = Unset

NextStore ==
    \/ NextLog
    \/ LoadAndDisplayLogs
    \/ ClearLogsOpen
    \/ ClearLogsData
    \/ ExportLogsInvoke
    \/ \E chosen, copied \in BOOLEAN : ExportDialog(chosen, copied)

SpecStore == InitStore /\ [][NextStore]_vars

(***************************************************************************)
(* Properties of the log store and its users.                              *)
(***************************************************************************)
\* The step in which a saveLog call settles the array it will write: its
\* start when there is no file, else the return of readFile.
SettlesLogs(c) == (SaveLogInvoke(c) /\ logFile.st = "missing") \/ SaveLogRead(c)

\* C12: a saveLog call that finds the log file missing, empty, unparseable or
\* holding a non-array goes on to write the one-element array of its new
\* record (it does not fail on the content), and when it then renames its own
\* temp file over a log that still holds no records, the log is exactly that
\* one-element array.
C12_CorruptIsEmpty ==
    /\ [][\A c \in RunIds :
            (SettlesLogs(c) /\ logFile.st # "ok") =>
                /\ sl'[c].pc = "open"
                /\ sl'[c].seen = <<>>
                /\ sl'[c].logs = <<enhancedEntry(sl'[c].entry)>>]_vars
    /\ [][\A c \in RunIds :
            (C1_Publishes(c) /\ logFile.st # "ok") =>
                logFile' = JsonFile(<<enhancedEntry(sl[c].entry)>>)]_vars

C12_Witness ==
    /\ \E c \in RunIds : sl[c].pc = "done"
    /\ logFile.st = "ok"
    /\ Len(logFile.logs) = 1
    /\ logFile.logs[1].timestamp = 1
    /\ clr.pc = "idle"

\* C13: a saveLog call that has failed has not written into the file at
\* logFilePath.
C13_FailedCallLeavesLog ==
    \A c \in RunIds : sl[c].pc = "failed" => ~sl[c].wrote

\* C14: loading the dashboard shows the records of the log file, and no
\* records when the file is missing or its content is not an array of records;
\* it never ends in the error page.
C14_ReadAll ==
    [][LoadAndDisplayLogs =>
        (panel'.kind = "dashboard" /\ panel'.logs = ParseLogs(logFile))]_vars

\* C15: no step of clearLogs leaves the file at logFilePath in a state other
\* than a complete JSON array.
C15_ClearAtomic ==
    [][(clr'.pc # clr.pc /\ logFile' # logFile) => logFile'.st = "ok"]_vars

\* C16: a clearLogs call that writes into the file it emptied leaves the log
\* holding the empty array, whatever it held before; a saveLog call that reads
\* the cleared log settles on the one-element array of its record, and when it
\* renames its own temp file over the still cleared log the log holds exactly
\* that record.
C16_ClearThenAppend ==
    /\ [][(clr.pc = "data" /\ clr'.pc = "done" /\ clr.fd = "log" /\ logFile.st = "truncated")
            => logFile' = JsonFile(<<>>)]_vars
    /\ [][\A c \in RunIds :
            (SettlesLogs(c) /\ clr.pc = "done" /\ logFile = JsonFile(EmptyArray)) =>
                sl'[c].logs = <<enhancedEntry(sl'[c].entry)>>]_vars
    /\ [][\A c \in RunIds :
            (C1_Publishes(c) /\ clr.pc = "done" /\ logFile = JsonFile(EmptyArray)) =>
                logFile' = JsonFile(<<enhancedEntry(sl[c].entry)>>)]_vars

C16_Witness ==
    /\ clr.pc = "done"
    /\ \E c \in RunIds : sl[c].pc = "done"
    /\ logFile.st = "ok"
    /\ Len(logFile.logs) = 1
    /\ logFile.logs[1].timestamp = 2

\* C17: a successful export leaves at the destination the very content of the
\* log file, so that both parse to the same records, and no step of exportLogs
\* changes the log file.
C17_ExportCopies ==
    /\ [][ExportDialog(TRUE, TRUE) =>
            /\ exportFile' = logFile
            /\ ParseLogs(exportFile') = ParseLogs(logFile')
            /\ exp'.shown = "Logs exported"]_vars
    /\ [][exp' # exp => logFile' = logFile]_vars

C17_Witness ==
    /\ exp.shown = "Logs exported"
    /\ exportFile = logFile
    /\ Len(ParseLogs(exportFile)) = 3

C19_UploadIsolated ==
    /\ [][\A r \in RunIds :
            UploadSettled(r, FALSE) =>
                /\ runs'[r].reports = runs[r].reports
                /\ runs'[r].st = runs[r].st
                /\ runs'[r].rejectTimer = runs[r].rejectTimer
                /\ runs'[r].bg = "done"
                /\ UNCHANGED <<logFile, tmpFile, sl>>]_vars
    /\ [](\A r \in RunIds :
            runs[r].upload = "failed" =>
                /\ "Build failed with exit code" \in runs[r].reports
                /\ "Upload failed" \notin runs[r].reports
                /\ (~runs[r].cancelled /\ ~runs[r].rejectTimer) => runs[r].st = "build failed")

C19_Witness ==
    \E r \in RunIds :
        /\ runs[r].upload = "failed"
        /\ runs[r].bg = "done"
        /\ runs[r].st = "build failed"
        /\ RecordsOf(r) # {}

\* The outcomes whose handling has been performed for run r.
Handled(r) ==
    {o \in {"Success", "Failure", "SpawnFailure", "Cancelled"} :
        \/ o = "Success" /\ "Build Successful" \in runs[r].reports
        \/ o = "Failure" /\ "Build failed with exit code" \in runs[r].reports
        \/ o = "SpawnFailure" /\ "Command not found" \in runs[r].reports
        \/ o = "Cancelled" /\ runs[r].cancelled}

\* C20: with no fault of the environment, and a cancellation, if any, that
\* found the child running, the handling of at most one outcome has been
\* performed for each run.
C20_OneOutcome ==
    \A r \in RunIds :
        (faults = 0 /\ (runs[r].cancelled => runs[r].killed))
            => Cardinality(Handled(r)) <= 1

\* C21: the promise of a failed run is rejected with the build failure only
\* once the run's entry has been built and saveLog has returned or thrown.
C21_SettlesAfterPersisting ==
    \A r \in RunIds :
        runs[r].st = "build failed" => runs[r].bg \in {"upload", "done"}

\* C22: on linux, with no fault of the environment, once the grace period of
\* a cancelled run has elapsed with the child still running, SIGKILL has been
\* sent to the child.
C22_Escalates ==
    \A r \in RunIds :
        ( /\ platform = "linux"
          /\ faults = 0
          /\ runs[r].cancelled
          /\ ~runs[r].killTimer
          /\ runs[r].child = "running" )
            => "SIGKILL" \in runs[r].signals

\* C23: while the queries of a run's context collection are in progress, no
\* build child process is running.
C23_CollectsAfterBuild ==
    \A r \in RunIds :
        runs[r].bg = "collect" => \A q \in RunIds : runs[q].child # "running"

(***************************************************************************)
(* Further properties of the log store.                                    *)
(***************************************************************************)
\* C24: with no fault of the environment and no clearLogs, once every saveLog
\* call is over, each call has completed its rename and the log file is a
\* complete array.
C24_LastWriterWins ==
    ( /\ faults = 0
      /\ clr.pc = "idle"
      /\ \A c \in RunIds : CallOver(c) )
        => /\ \A c \in RunIds : sl[c].pc # "failed"
           /\ (\E c \in RunIds : sl[c].pc = "done") => logFile.st = "ok"

\* C25: with no fault of the environment, a saveLog call that is about to
\* rename finds at the temp path the array that it wrote itself.
C25_OwnTempFile ==
    \A c \in RunIds :
        (faults = 0 /\ sl[c].pc = "rename") => tmpFile = JsonFile(sl[c].logs)

\* C26: an entry is handed to uploadToFirebase only in the step in which the
\* saveLog call of its failed run has returned, and it has not been handed over
\* before; a run whose saveLog threw never has its entry uploaded, and a run
\* whose entry was handed over is past its saveLog call.
C26_UploadAfterSave ==
    /\ [][uploads' # uploads =>
            \E r \in RunIds :
                /\ runs[r].bg = "saving"
                /\ sl[r].pc = "done"
                /\ runs[r].code \notin {"none", "0"}
                /\ runs[r].entry.timestamp \notin uploads
                /\ uploads' = uploads \cup {runs[r].entry.timestamp}]_vars
    /\ [](\A r \in RunIds :
            /\ "Error saving build log" \in runs[r].reports
                    => runs[r].entry.timestamp \notin uploads
            /\ runs[r].entry.timestamp \in uploads => runs[r].bg \in {"upload", "done"})

C26_Witness ==
    \E r, q \in RunIds :
        /\ runs[r].entry.timestamp \in uploads
        /\ runs[r].bg = "done"
        /\ "Error saving build log" \in runs[q].reports
        /\ runs[q].bg = "done"

\* C27: a saveLog call that returns, having renamed the array it wrote over a
\* log file holding a valid array, leaves that array with the new record added
\* at the end, less the records rotation evicts from the front: no record that
\* was in the log file is changed, moved or dropped otherwise.
C27_AppendOnly ==
    [][\A c \in RunIds :
            (/\ sl[c].pc = "rename"
             /\ sl'[c].pc = "done"
             /\ tmpFile = JsonFile(sl[c].logs)
             /\ logFile.st = "ok")
                => LET ext == Append(logFile.logs, enhancedEntry(sl[c].entry))
                       n == Min2(Len(ext), MAX_LOG_ENTRIES)
                   IN  logFile' = JsonFile(SubSeq(ext, Len(ext) - n + 1, Len(ext)))]_vars

(***************************************************************************)
(* The output of one child process: the stdout and stderr handlers of      *)
(* runBuildProcess in extension.ts, which report progress, and handleOutput *)
(* of the terminal variant in extension.js, which sends the output to the  *)
(* build terminal through a 100 ms timer.                                  *)
(***************************************************************************)
MaxOutput == 3      \* chunks received from one child process

\* The chunks a child writes: a letter; a line, a line feed and a double quote;
\* the two bytes "hi" "lo" of one character outside ASCII; its first byte alone.
OutputData == {<<"a">>, <<"b", "\n", "\"">>, <<"hi", "lo">>, <<"hi">>}

\* data.toString("utf8"): a complete two-byte character is decoded, a byte of
\* an incomplete one becomes the replacement character
RECURSIVE toString(_)
toString(data) ==
    IF data = <<>> THEN <<>>
    ELSE IF Head(data) = "hi" /\ Len(data) >= 2 /\ data[2] = "lo"
    THEN <<"U+00E9">> \o toString(SubSeq(data, 3, Len(data)))
    ELSE IF Head(data) \in {"hi", "lo"}
    THEN <<"U+FFFD">> \o toString(Tail(data))
    ELSE <<Head(data)>> \o toString(Tail(data))

\* text.split("\n")
RECURSIVE Split(_)
Split(text) ==
    LET nl == {i \in 1..Len(text) : text[i] = "\n"}
    IN  IF nl = {} THEN <<text>>
        ELSE <<SubSeq(text, 1, SetMin(nl) - 1)>> \o Split(SubSeq(text, SetMin(nl) + 1, Len(text)))

\* text.split(/\r?\n/): a carriage return before the line feed goes with it
SplitLines(text) ==
    LET parts == Split(text)
    IN  [i \in 1..Len(parts) |->
            IF i < Len(parts) /\ parts[i] # <<>> /\ parts[i][Len(parts[i])] = "\r"
            THEN SubSeq(parts[i], 1, Len(parts[i]) - 1)
            ELSE parts[i]]

NotBlank(line) == Trim(line) # <<>>

\* lastLine.substring(0, 50) + (lastLine.length > 50 ? "..." : "")
ProgressMessage(lastLine) ==
    IF Len(lastLine) > 50 THEN SubSeq(lastLine, 1, 50) \o <<".", ".", ".">> ELSE lastLine

\* stdout.on("data"): buildOutput += text, and the last line that is not
\* blank, if there is one, is reported as progress
OnStdout(o, text) ==
    LET lines == SelectSeq(Split(text), NotBlank)
    IN  [o EXCEPT !.buildOutput = @ \o text,
                  !.progress = IF lines # <<>> THEN ProgressMessage(lines[Len(lines)]) ELSE @]

\* stderr.on("data"): errorOutput += text; buildOutput += text
OnStderr(o, text) == [o EXCEPT !.errorOutput = @ \o text, !.buildOutput = @ \o text]

\* /[^\x20-\x7E\r\n]/
IsAsciiOrNewline(c) == c \notin {"U+00E9", "U+FFFD", "\t"}

\* text.replace(/[^\x20-\x7E\r\n]/g, '')
Sanitize(text) == SelectSeq(text, IsAsciiOrNewline)

\* sanitized.replace(/"/g, '\\"')
RECURSIVE EscapeQuotes(_)
EscapeQuotes(text) ==
    IF text = <<>> THEN <<>>
    ELSE (IF Head(text) = "\"" THEN <<"\\", "\"">> ELSE <<Head(text)>>) \o EscapeQuotes(Tail(text))

\* `echo "${sanitized.replace(/"/g, '\\"')}"`
EchoCommand(sanitized) == <<"e", "c", "h", "o", " ", "\"">> \o EscapeQuotes(sanitized) \o <<"\"">>

\* The timer callback's calls of buildTerminal.sendText for one text: on
\* win32 one per line that is not blank, elsewhere one echo command.
SendTexts(text, plat) ==
    LET sanitized == Sanitize(text)
    IN  IF plat = "win32"
        THEN SelectSeq(SplitLines(sanitized), NotBlank)
        ELSE <<EchoCommand(sanitized)>>

\* Mutant of handleOutput: the buffer keeps the latest chunk only.
handleOutputLatest(o, text) ==
    [o EXCEPT !.buildOutput = text,
              !.outputTimer = [armed |-> TRUE, text |-> text],
              !.unsent = Append(@, text)]

\* handleOutput(data): buildOutput += text; the pending timer is cleared and
\* a new one is set whose callback holds this chunk's text.
handleOutput(o, text) ==
    [o EXCEPT !.buildOutput = @ \o text,
              !.outputTimer = [armed |-> TRUE, text |-> text],
              !.unsent = Append(@, text)]

\* the chunk is received (arrival order is kept for the properties)
Receive(o, stream, data) == [o EXCEPT !.received = Append(@, [stream |-> stream, data |-> data])]

\* The child's streams deliver data until they are closed, which can be after
\* the exit event.
Delivers(variant) ==
    /\ out.variant = variant
    /\ out.phase \in {"running", "exited"}
    /\ out.code # "error"
    /\ Len(out.received) < MaxOutput

outFrame == <<runs, nextRun, sl, logFile, tmpFile, clock, uploads, faults, cancels, chunks,
              platform, fnIn, fnOut, clr, exp, exportFile, panel,
              workspacePath, logFilePath, disk, jobs, hook>>

\* extension.ts: buildProcess.stdout.on("data", ...)
TsStdoutData(data) ==
    /\ Delivers("ts")
    /\ out' = OnStdout(Receive(out, "stdout", data), toString(data))
    /\ UNCHANGED outFrame

\* extension.ts: buildProcess.stderr.on("data", ...)
TsStderrData(data) ==
    /\ Delivers("ts")
    /\ out' = OnStderr(Receive(out, "stderr", data), toString(data))
    /\ UNCHANGED outFrame

\* extension.ts: buildProcess.on("exit", ...), as far as the output goes
TsExit(code) ==
    /\ out.variant = "ts"
    /\ out.phase = "running"
    /\ out' = [out EXCEPT !.phase = "exited", !.code = code]
    /\ UNCHANGED outFrame

\* extension.ts: the background logging builds logEntry.error after its queries
TsLogEntry ==
    /\ out.variant = "ts"
    /\ out.phase \in {"exited", "closed"}
    /\ out.code \notin {"0", "error"}
    /\ out.error = Unset
    /\ out' = [out EXCEPT !.error = LogEntryError(out.buildOutput, out.errorOutput)]
    /\ UNCHANGED outFrame

\* extension.js: buildProcess.stdout.on('data', handleOutput) and
\* buildProcess.stderr.on('data', handleOutput)
JsData(stream, data) ==
    /\ Delivers("js")
    /\ out' = handleOutput(Receive(out, stream, data), toString(data))
    /\ UNCHANGED outFrame

\* Mutant of TimerCallback: the text is sent whether or not the child has exited.
TimerCallbackUnguarded(o, plat) ==
    [o EXCEPT !.outputTimer = NoTimer,
              !.unsent = <<>>,
              !.terminal = @ \o SendTexts(o.outputTimer.text, plat)]

\* The callback of outputTimer: if (buildTerminal && !processExited) the text
\* of its chunk is sent to the terminal.
TimerCallback(o, plat) ==
    [o EXCEPT !.outputTimer = NoTimer,
              !.unsent = <<>>,
              !.terminal = IF o.processExited THEN @
                           ELSE @ \o SendTexts(o.outputTimer.text, plat)]

\* extension.js: the callback of outputTimer, 100 ms after the last chunk
JsOutputTimer ==
    /\ out.variant = "js"
    /\ out.outputTimer.armed
    /\ out' = TimerCallback(out, platform)
    /\ UNCHANGED outFrame

\* extension.js: buildProcess.on('exit', ...): processExited = true and the
\* pending timer is cleared
JsExit(code) ==
    /\ out.variant = "js"
    /\ out.phase = "running"
    /\ out' = [out EXCEPT !.phase = "exited", !.code = code, !.processExited = TRUE,
                          !.outputTimer = NoTimer]
    /\ UNCHANGED outFrame

\* extension.js: the exit handler, after its two queries, builds the entry's
\* error: truncateString(buildOutput.trim(), MAX_ERROR_LENGTH)
JsLogEntry ==
    /\ out.variant = "js"
    /\ out.phase \in {"exited", "closed"}
    /\ out.code \notin {"0", "error"}
    /\ out.error = Unset
    /\ out' = [out EXCEPT !.error = truncateString(Trim(out.buildOutput), MAX_ERROR_LENGTH)]
    /\ UNCHANGED outFrame

\* extension.js: buildProcess.on('error', ...) when the shell cannot be
\* spawned: processExited = true, the timer is left alone
JsError ==
    /\ out.variant = "js"
    /\ out.phase = "running"
    /\ out.received = <<>>
    /\ out' = [out EXCEPT !.phase = "exited", !.code = "error", !.processExited = TRUE]
    /\ UNCHANGED outFrame

\* The streams of the child are closed. extension.js: buildProcess.on('close',
\* ...) sets processExited and clears the timer; extension.ts has no handler.
StreamsClose ==
    /\ out.phase = "exited"
    /\ out' = IF out.variant = "js"
              THEN [out EXCEPT !.phase = "closed", !.processExited = TRUE, !.outputTimer = NoTimer]
              ELSE [out EXCEPT !.phase = "closed"]
    /\ UNCHANGED outFrame

\* spawn(...) has returned the child; the terminal variant has created and
\* shown its build terminal.
Spawned(variant) == [IdleOut EXCEPT !.variant = variant, !.phase = "running"]

InitOut ==
    /\ runs = [r \in RunIds |-> NoRun]
    /\ nextRun = 0
    /\ sl = [c \in RunIds |-> IdleCall]
    /\ logFile = MissingFile
    /\ tmpFile = MissingFile
    /\ clock = 0
    /\ uploads = {}
    /\ faults = 0
    /\ cancels = 0
    /\ chunks = 0
    /\ clr = IdleClear
    /\ exp = IdleExport
    /\ exportFile = MissingFile
    /\ panel = NoPanel
    /\ fnIn = Unset
    /\ fnOut = Unset
    /\ workspacePath = ActivatedFolder
    /\ logFilePath = LogFilePathOf(ActivatedFolder, "")
    /\ disk = [p \in DiskPaths |-> MissingFile]
    /\ jobs = [r \in RunIds |-> NoJob]
    /\ hook = IdleHook
    /\ platform \in {"linux", "win32"}
    /\ out \in {Spawned(variant) : variant \in {"ts", "js"}}

NextOut ==
    \/ \E data \in OutputData : TsStdoutData(data)
    \/ \E data \in OutputData : TsStderrData(data)
    \/ \E code \in ExitCodes : TsExit(code)
    \/ TsLogEntry
    \/ \E stream \in {"stdout", "stderr"}, data \in OutputData : JsData(stream, data)
    \/ JsOutputTimer
    \/ \E code \in ExitCodes : JsExit(code)
    \/ JsLogEntry
    \/ JsError
    \/ StreamsClose

SpecOut == InitOut /\ [][NextOut]_vars

\* the texts of the chunks, joined in the order given
RECURSIVE Joined(_)
Joined(received) ==
    IF received = <<>> THEN <<>> ELSE toString(Head(received).data) \o Joined(Tail(received))

IsStderr(chunk) == chunk.stream = "stderr"

\* C28: at every moment, so at the exit event and when the entry's error is
\* built, buildOutput is the texts of all chunks received so far on stdout and
\* stderr, joined in arrival order (and errorOutput those of stderr); the timer
\* that throttles the display takes nothing out of it.
C28_BufferComplete ==
    /\ out.buildOutput = Joined(out.received)
    /\ out.variant = "ts" => out.errorOutput = Joined(SelectSeq(out.received, IsStderr))

C28_Witness ==
    /\ out.variant = "js"
    /\ out.phase = "exited"
    /\ out.code = "1"
    /\ out.terminal # <<>>
    /\ Len(out.received) = 3
    /\ \E i, j \in 1..3 : out.received[i].stream = "stdout" /\ out.received[j].stream = "stderr"
    /\ out.received[1].data # out.received[2].data
    /\ out.buildOutput = Joined(out.received)

\* C29: the terminal is sent something only when the timer fires, every chunk
\* sets the timer anew, and when the timer fires before the exit, the chunks
\* received since the last time it fired are sent: as one text, or one by one.
RECURSIVE SentOneByOne(_, _)
SentOneByOne(texts, plat) ==
    IF texts = <<>> THEN <<>> ELSE SendTexts(Head(texts), plat) \o SentOneByOne(Tail(texts), plat)

RECURSIVE Flat(_)
Flat(texts) == IF texts = <<>> THEN <<>> ELSE Head(texts) \o Flat(Tail(texts))

C29_Debounced ==
    [][out.variant = "js" =>
        /\ out'.terminal # out.terminal => (out.outputTimer.armed /\ ~out'.outputTimer.armed)
        /\ out'.received # out.received => out'.outputTimer.armed
        /\ (out.outputTimer.armed /\ ~out.processExited
                /\ ~out'.outputTimer.armed /\ out'.phase = out.phase)
            => \/ out'.terminal = out.terminal \o SendTexts(Flat(out.unsent), platform)
               \/ out'.terminal = out.terminal \o SentOneByOne(out.unsent, platform)]_vars

(***************************************************************************)
(* The paths of a run.  trackBuilds assigns the module variables            *)
(* workspacePath and logFilePath every time it is invoked; the background  *)
(* logging of a failed run and saveLog read them when they execute.  The   *)
(* files of every log file path are kept in disk, and a write of the temp  *)
(* file is one step here.                                                  *)
(***************************************************************************)
pathFrame == <<runs, nextRun, sl, logFile, tmpFile, clock, uploads, faults, cancels, chunks,
               platform, fnIn, fnOut, clr, exp, exportFile, panel, out, hook>>

\* The command build-logger.trackBuilds, up to the spawn of the build: ws is
\* what getCorrectWorkspacePath() returns and configLogPath the setting now.
TrackBuildsIn(r, ws, configLogPath) ==
    /\ jobs[r].st = "none"
    /\ \A q \in RunIds : q < r => jobs[q].st # "none"
    /\ workspacePath' = ws
    /\ logFilePath' = LogFilePathOf(ws, configLogPath)
    /\ jobs' = [jobs EXCEPT ![r] = [NoJob EXCEPT !.st = "running", !.cwd = ws,
                                                 !.startedLog = LogFilePathOf(ws, configLogPath)]]
    /\ UNCHANGED <<pathFrame, disk>>

\* buildProcess.on("exit", ...): a failure starts the background logging,
\* whose first step is its three queries
BuildExit(r, code) ==
    /\ jobs[r].st = "running"
    /\ jobs' = [jobs EXCEPT ![r].st = IF IsSuccess(code) THEN "succeeded" ELSE "collect"]
    /\ UNCHANGED <<pathFrame, disk, workspacePath, logFilePath>>

\* The queries have settled: logEntry is built with workingDirectory:
\* workspacePath and saveLog(logEntry) is called, which runs up to its first
\* await: the read of logFilePath if that file exists, else the write of
\* logFilePath + ".tmp".
LogFailure(r) ==
    /\ jobs[r].st = "collect"
    /\ LET entry == [timestamp |-> r, workingDirectory |-> workspacePath]
       IN  IF disk[logFilePath].st # "missing"
           THEN /\ jobs' = [jobs EXCEPT ![r].st = "read", ![r].entry = entry,
                                        ![r].readPath = logFilePath]
                /\ UNCHANGED disk
           ELSE /\ jobs' = [jobs EXCEPT ![r].st = "rename", ![r].entry = entry,
                                        ![r].logs = <<enhancedEntry(entry)>>,
                                        ![r].tempPath = TempPathOf(logFilePath)]
                /\ disk' = [disk EXCEPT ![TempPathOf(logFilePath)] = JsonFile(<<enhancedEntry(entry)>>)]
    /\ UNCHANGED <<pathFrame, workspacePath, logFilePath>>

\* saveLog after its readFile: the entry is pushed, the array rotated and
\* written to logFilePath + ".tmp"
SaveLogReadAt(r) ==
    /\ jobs[r].st = "read"
    /\ LET logs == Rotate(Append(ParseLogs(disk[jobs[r].readPath]), enhancedEntry(jobs[r].entry)))
       IN  /\ jobs' = [jobs EXCEPT ![r].st = "rename", ![r].logs = logs,
                                   ![r].tempPath = TempPathOf(logFilePath)]
           /\ disk' = [disk EXCEPT ![TempPathOf(logFilePath)] = JsonFile(logs)]
    /\ UNCHANGED <<pathFrame, workspacePath, logFilePath>>

\* saveLog: await fs.promises.rename(tempPath, logFilePath)
SaveLogRenameAt(r) ==
    /\ jobs[r].st = "rename"
    /\ IF disk[jobs[r].tempPath].st = "missing"
       THEN /\ jobs' = [jobs EXCEPT ![r].st = "failed"]
            /\ UNCHANGED disk
       ELSE /\ jobs' = [jobs EXCEPT ![r].st = "saved", ![r].renamedTo = logFilePath]
            /\ disk' = [disk EXCEPT ![logFilePath] = disk[jobs[r].tempPath],
                                    ![jobs[r].tempPath] = MissingFile]
    /\ UNCHANGED <<pathFrame, workspacePath, logFilePath>>

InitPath ==
    /\ Quiet
    /\ platform = "linux"
    /\ logFile = MissingFile
    /\ fnIn = Unset
    /\ fnOut = Unset

NextPath ==
    \/ \E r \in RunIds, ws \in Folders, configLogPath \in ConfigLogPaths :
            TrackBuildsIn(r, ws, configLogPath)
    \/ \E r \in RunIds, code \in ExitCodes : BuildExit(r, code)
    \/ \E r \in RunIds : LogFailure(r)
    \/ \E r \in RunIds : SaveLogReadAt(r)
    \/ \E r \in RunIds : SaveLogRenameAt(r)

SpecPath == InitPath /\ [][NextPath]_vars

\* C30: the record of a failed run is renamed into the log file path that
\* trackBuilds assigned when it started that run, and its workingDirectory is
\* the directory the build ran in.
C30_PathsOfItsRun ==
    \A r \in RunIds :
        /\ jobs[r].st = "saved" => jobs[r].renamedTo = jobs[r].startedLog
        /\ jobs[r].entry # NoEntry => jobs[r].entry.workingDirectory = jobs[r].cwd

(***************************************************************************)
(* getDeveloperName over the outcome of "git config user.name" and the     *)
(* environment of the process.                                             *)
(***************************************************************************)
sUnknownDeveloper == <<"Unknown Developer">>

\* The outcomes of exec("git config user.name"): an error (git missing, no
\* repository, or exit status 1 because user.name is not set), or its stdout.
ExecFailed == [error |-> TRUE, stdout |-> <<>>]
ExecStdout(text) == [error |-> FALSE, stdout |-> text]
GitNameResults ==
    {ExecFailed, ExecStdout(<<>>), ExecStdout(<<"\n">>), ExecStdout(<<" ", "\n">>),
     ExecStdout(<<"d", "\n">>), ExecStdout(<<" ", "d", " ", "e", "\n">>)}

\* process.env: a variable that is not set, or is set to "", is the empty text
Environments ==
    [USER : {<<>>, <<"u">>}, USERNAME : {<<>>, <<"n">>},
     LOGNAME : {<<>>, <<"l">>}, COMPUTERNAME : {<<>>, <<"c">>}]

\* process.env.USER || process.env.USERNAME || process.env.LOGNAME ||
\* process.env.COMPUTERNAME || "Unknown Developer"
EnvironmentName(env) ==
    JsOr(env.USER, JsOr(env.USERNAME, JsOr(env.LOGNAME, JsOr(env.COMPUTERNAME, sUnknownDeveloper))))

\* getDeveloperName() in full: executeCommand rejects on an exec error and the
\* catch returns "Unknown Developer"; a name that is not blank is returned
\* trimmed; a blank one gives way to the environment.
DeveloperName(git, env) ==
    IF git.error THEN sUnknownDeveloper
    ELSE IF Trim(git.stdout) # <<>> THEN Trim(git.stdout)
    ELSE EnvironmentName(env)

InitDev ==
    /\ Quiet
    /\ platform = "linux"
    /\ logFile = MissingFile
    /\ fnIn \in [git : GitNameResults, env : Environments]
    /\ fnOut = Unset

GetDeveloperName ==
    /\ Len(fnOut) = 1
    /\ fnOut' = <<"resolved", DeveloperName(fnIn.git, fnIn.env)>>
    /\ UNCHANGED <<runs, nextRun, sl, logFile, tmpFile, clock, uploads, faults, cancels, chunks, platform, auxVars, fnIn, storeVars>>

NextDev == GetDeveloperName

SpecDev == InitDev /\ [][NextDev]_vars

\* C31: getDeveloperName resolves, never rejects: to the trimmed git user name
\* when the query yields one that is not empty; when the query yields an empty
\* name or fails, to the first of USER, USERNAME, LOGNAME, COMPUTERNAME that is
\* not empty, and to "Unknown Developer" only when all four are empty.
C31_DeveloperName ==
    Len(fnOut) = 2 =>
        /\ fnOut[1] = "resolved"
        /\ fnOut[2] = IF ~fnIn.git.error /\ Trim(fnIn.git.stdout) # <<>>
                      THEN Trim(fnIn.git.stdout)
                      ELSE IF fnIn.env.USER # <<>> THEN fnIn.env.USER
                      ELSE IF fnIn.env.USERNAME # <<>> THEN fnIn.env.USERNAME
                      ELSE IF fnIn.env.LOGNAME # <<>> THEN fnIn.env.LOGNAME
                      ELSE IF fnIn.env.COMPUTERNAME # <<>> THEN fnIn.env.COMPUTERNAME
                      ELSE sUnknownDeveloper

\* C32: a configured command that is not blank is the command used, trimmed,
\* whatever the workspace holds; with no command configured the first match
\* wins in the order package.json with a build script, then a compile, dist,
\* dev script, then pom.xml, then build.gradle, then Makefile.
C32_Priority ==
    Len(fnOut) = 2 =>
        LET configured == fnIn.configured
            ws == fnIn.ws
            result == fnOut[2]
            scripted(name) == ws.pkg = "ok" /\ name \in ws.scripts
        IN  IF Trim(configured) # <<>>
            THEN result.ok => result.cmd = Trim(configured)
            ELSE /\ scripted(sBuild) => result = Resolved(NpmRun(sBuild))
                 /\ (scripted(sCompile) /\ ~scripted(sBuild)) => result = Resolved(NpmRun(sCompile))
                 /\ (scripted(sDist) /\ ~scripted(sBuild) /\ ~scripted(sCompile))
                        => result = Resolved(NpmRun(sDist))
                 /\ (scripted(sDev) /\ ws.scripts = {sDev}) => result = Resolved(NpmRun(sDev))
                 /\ (ws.pkg = "none" /\ ws.pom) => result = Resolved(sMvnCompile)
                 /\ (ws.pkg = "none" /\ ~ws.pom /\ ws.gradle) => result = Resolved(sGradleBuild)
                 /\ (ws.pkg = "none" /\ ~ws.pom /\ ~ws.gradle /\ ws.makefile)
                        => result = Resolved(sMake)

\* C33: with no command configured (none, or a blank one) in a workspace that
\* has no package.json, pom.xml, build.gradle or Makefile, the resolution
\* fails with the no-build-system error and yields no command.
C33_NoBuildSystem ==
    (Len(fnOut) = 2 /\ Trim(fnIn.configured) = <<>> /\ fnIn.ws = NoProject)
        => fnOut[2] = Rejected("NoBuildSystemDetected")

C33_Witness ==
    /\ Len(fnOut) = 2
    /\ fnIn.configured = <<" ">>
    /\ fnIn.ws = NoProject
    /\ ~fnOut[2].ok
    /\ fnOut[2].cmd = <<>>

(***************************************************************************)
(* uploadToFirebase: the module the extension imports (firebaseService.ts) *)
(* and the version of it that asks isFirebaseEnabled() first.              *)
(***************************************************************************)
UploadLogs == [timestamp : {1, 2}, branch : {"main", "unknown"}, exitCode : {"1", "null"}]

\* what addDoc does: it resolves with the new document, or rejects
RemoteOutcomes == {"doc1", "rejected"}

UploadVersions == {"firebaseService.ts", "gated"}

\* firebaseService.ts: the app and the store are initialized when the module
\* is loaded; the call hands the log to addDoc and catches whatever it throws.
uploadToFirebase(log, enabled, remote) ==
    [settled |-> "resolved", value |-> "undefined", initialized |-> TRUE,
     sent |-> <<log>>, notified |-> "none"]

\* Number(log.exitCode || 0) and the server timestamp added to the document
CleanLog(log) ==
    [log EXCEPT !.exitCode = IF @ = "null" THEN "0" ELSE @] @@ [serverTimestamp |-> "server"]

\* The gated version: null at once when the setting is off; else the store
\* is initialized and written, and an error of the write is shown and rethrown.
uploadToFirebaseGated(log, enabled, remote) ==
    IF ~enabled
    THEN [settled |-> "resolved", value |-> "null", initialized |-> FALSE,
          sent |-> <<>>, notified |-> "none"]
    ELSE IF remote = "rejected"
    THEN [settled |-> "rejected", value |-> "error", initialized |-> TRUE,
          sent |-> <<CleanLog(log)>>, notified |-> "Failed to upload build log to Firebase"]
    ELSE [settled |-> "resolved", value |-> remote, initialized |-> TRUE,
          sent |-> <<CleanLog(log)>>, notified |-> "Build failure logged to Firebase"]

InitUpload ==
    /\ Quiet
    /\ platform = "linux"
    /\ logFile = MissingFile
    /\ fnIn \in [version : UploadVersions, log : UploadLogs, enabled : BOOLEAN,
                 remote : RemoteOutcomes]
    /\ fnOut = Unset

UploadToFirebase ==
    /\ Len(fnOut) = 1
    /\ fnOut' = <<"settled",
                  IF fnIn.version = "gated"
                  THEN uploadToFirebaseGated(fnIn.log, fnIn.enabled, fnIn.remote)
                  ELSE uploadToFirebase(fnIn.log, fnIn.enabled, fnIn.remote)>>
    /\ UNCHANGED <<runs, nextRun, sl, logFile, tmpFile, clock, uploads, faults, cancels, chunks, platform, auxVars, fnIn, storeVars>>

NextUpload == UploadToFirebase

SpecUpload == InitUpload /\ [][NextUpload]_vars

\* C34: uploadToFirebase always resolves, also when the remote write fails,
\* and with enableFirebaseLogging off it resolves to null without having
\* initialized the store or handed it anything.
C34_UploadNeverThrows ==
    Len(fnOut) = 2 =>
        /\ fnOut[2].settled = "resolved"
        /\ ~fnIn.enabled =>
                /\ fnOut[2].value = "null"
                /\ ~fnOut[2].initialized
                /\ fnOut[2].sent = <<>>

\* C35: in the terminal variant, from the exit, error or close event of the
\* child on, processExited stays set and nothing more is sent to the build
\* terminal; the exit and close handlers leave no timer pending, and a timer
\* set by a later chunk fires without sending.
C35_QuietAfterExit ==
    /\ [](out.variant = "js" /\ out.phase \in {"exited", "closed"} => out.processExited)
    /\ [](out.variant = "js" /\ out.phase = "closed" => ~out.outputTimer.armed)
    /\ [][out.variant = "js" =>
            /\ out.processExited => (out'.processExited /\ out'.terminal = out.terminal)
            /\ (out.phase = "running" /\ out'.phase = "exited" /\ out'.code # "error")
                    => ~out'.outputTimer.armed]_vars

\* A chunk arrived after the exit event, its timer has fired, and the terminal
\* was sent nothing.
C35_Witness ==
    /\ out.variant = "js"
    /\ platform = "linux"
    /\ out.phase = "exited"
    /\ out.processExited
    /\ out.received # <<>>
    /\ ~out.outputTimer.armed
    /\ out.unsent = <<>>
    /\ out.terminal = <<>>

(***************************************************************************)
(* The commit hook of extension.js: the handler enableCommitHooks registers *)
(* for git.commit, and runPreCommitBuild.  The handler is taken as          *)
(* registered.  Other failed builds of the extension append to the same    *)
(* log while it runs.                                                      *)
(***************************************************************************)
MaxHooks == 2       \* invocations of the git.commit handler

\* the saveLog call of the pre-commit build
HookCall == 1

hookFrame == <<runs, nextRun, uploads, cancels, platform, fnIn, fnOut, clr, exp, exportFile,
               panel, out, workspacePath, logFilePath, disk, jobs>>

\* what getValidatedBuildCommand() gives runPreCommitBuild: a command, or it throws
HookCommands == {getValidatedBuildCommand(c, ws) : c \in ConfigCommands, ws \in Workspaces}

\* the handler starts: await checkForSignificantChanges()
StartHook(h) ==
    [h EXCEPT !.pc = "checking", !.choice = "none", !.result = "none", !.child = "none",
              !.code = "none", !.output = <<>>, !.logging = "none",
              !.invocations = @ + 1]

\* vscode.commands.executeCommand('git.commit', '--quiet'): the command
\* registered under git.commit is this handler, which starts again
ExecuteCommit(h) ==
    LET done == [h EXCEPT !.commits = @ \cup {[invocation |-> h.invocations,
                                               choice |-> h.choice, code |-> h.code]}]
    IN  IF h.invocations < MaxHooks THEN StartHook(done) ELSE [done EXCEPT !.pc = "committed"]

\* if (!success): the error message, and the handler returns without the commit
Blocked(h) ==
    [h EXCEPT !.pc = "blocked", !.result = "false",
              !.reports = @ \cup {"Build failed! Please fix the issues before committing."}]

\* runPreCommitBuild, close handler: code === 0
BuildSucceeded(code) == code = "0"

\* the user runs git.commit
GitCommit ==
    /\ hook.pc \in {"idle", "blocked", "committed"}
    /\ hook.child \notin {"running", "errored"}
    /\ hook.logging \notin {"developer", "saving"}
    /\ hook.invocations < MaxHooks
    /\ hook' = StartHook(hook)
    /\ UNCHANGED <<hookFrame, sl, logFile, tmpFile, clock, faults, chunks>>

\* checkForSignificantChanges() resolves (true also when its queries fail)
CheckedChanges(significant) ==
    /\ hook.pc = "checking"
    /\ hook' = IF significant THEN [hook EXCEPT !.pc = "asking"]
               ELSE ExecuteCommit([hook EXCEPT !.reports = @ \cup {"No significant code changes detected"}])
    /\ UNCHANGED <<hookFrame, sl, logFile, tmpFile, clock, faults, chunks>>

\* The modal question is answered.  Yes: runPreCommitBuild resolves its command
\* and spawns it, or returns false when the resolution throws; otherwise the
\* commit is executed.
Answered(choice, command) ==
    /\ hook.pc = "asking"
    /\ hook' = IF choice # "Yes" THEN ExecuteCommit([hook EXCEPT !.choice = choice])
               ELSE IF ~command.ok THEN Blocked([hook EXCEPT !.choice = choice])
               ELSE [hook EXCEPT !.choice = choice, !.pc = "building", !.child = "running"]
    /\ UNCHANGED <<hookFrame, sl, logFile, tmpFile, clock, faults, chunks>>

\* stdout/stderr 'data': output += data.toString()
HookOutput ==
    /\ hook.child = "running"
    /\ chunks < MaxChunks
    /\ chunks' = chunks + 1
    /\ hook' = [hook EXCEPT !.output = @ \o <<"o">>]
    /\ UNCHANGED <<hookFrame, sl, logFile, tmpFile, clock, faults>>

\* buildProcess.on('error', ...): the shell could not be spawned; resolve(false)
BuildError ==
    /\ hook.child = "running"
    /\ hook.output = <<>>
    /\ faults < MaxFaults
    /\ faults' = faults + 1
    /\ hook' = Blocked([hook EXCEPT !.child = "errored"])
    /\ UNCHANGED <<hookFrame, sl, logFile, tmpFile, clock, chunks>>

\* buildProcess.on('close', ...): resolve(true) on code 0, else the developer
\* query is awaited.  After an error event the code is the negative errno.
BuildClose(code) ==
    /\ hook.child \in {"running", "errored"}
    /\ hook.child = "errored" <=> code = "-2"
    /\ hook' = IF BuildSucceeded(code)
               THEN ExecuteCommit([hook EXCEPT !.child = "closed", !.code = code, !.result = "true"])
               ELSE [hook EXCEPT !.child = "closed", !.code = code, !.logging = "developer"]
    /\ UNCHANGED <<hookFrame, sl, logFile, tmpFile, clock, faults, chunks>>

\* getDeveloperName() has settled: saveLog is called with the entry
DeveloperSettled(name) ==
    /\ hook.logging = "developer"
    /\ CallOver(HookCall)
    /\ clock' = clock + 1
    /\ LET entry == [timestamp |-> clock + 1,
                     error |-> truncateString(hook.output, MAX_ERROR_LENGTH),
                     branch |-> "pre-commit",
                     developer |-> getDeveloperName(name),
                     exitCode |-> hook.code]
       IN  /\ hook' = [hook EXCEPT !.logging = "saving", !.entry = entry]
           /\ sl' = [sl EXCEPT ![HookCall] = BeginSaveLog(entry)]
    /\ UNCHANGED <<hookFrame, logFile, tmpFile, faults, chunks>>

\* saveLog(...).catch(...) has settled: resolve(false)
HookAfterSaveLog ==
    /\ hook.logging = "saving"
    /\ SaveLogSettled(sl[HookCall])
    /\ sl' = [sl EXCEPT ![HookCall] = IdleCall]
    /\ LET h == [hook EXCEPT !.logging = IF SaveLogReturned(sl[HookCall]) THEN "saved" ELSE "not saved",
                             !.reports = IF SaveLogReturned(sl[HookCall]) THEN @
                                         ELSE @ \cup {"Error saving build log"}]
       IN  hook' = IF h.result = "none" THEN Blocked(h) ELSE h
    /\ UNCHANGED <<hookFrame, logFile, tmpFile, clock, faults, chunks>>

\* another failed build of the extension calls saveLog
OtherSaveLog(c) ==
    /\ c # HookCall
    /\ SaveLogInvoke(c)

InitHook ==
    /\ Quiet
    /\ platform = "linux"
    /\ logFile \in {MissingFile, JsonFile(OldLog(1))}
    /\ fnIn = Unset
    /\ fnOut = Unset

NextHook ==
    \/ GitCommit
    \/ \E significant \in BOOLEAN : CheckedChanges(significant)
    \/ \E choice \in {"Yes", "No", "dismissed"}, command \in HookCommands : Answered(choice, command)
    \/ HookOutput
    \/ BuildError
    \/ \E code \in ExitCodes \cup {"-2"} : BuildClose(code)
    \/ \E name \in DeveloperQueries : DeveloperSettled(name)
    \/ HookAfterSaveLog
    \/ \E c \in RunIds : OtherSaveLog(c)
    \/ \E c \in RunIds : SaveLogRead(c)
    \/ \E c \in RunIds : SaveLogOpen(c)
    \/ \E c \in RunIds : SaveLogData(c)
    \/ \E c \in RunIds : SaveLogRename(c)

SpecHook == InitHook /\ [][NextHook]_vars

\* the records of the pre-commit build in the log file
HookRecords ==
    LET logs == ParseLogs(logFile)
    IN  {i \in DOMAIN logs : /\ logs[i].timestamp = hook.entry.timestamp
                             /\ "branch" \in DOMAIN logs[i]
                             /\ logs[i].branch = "pre-commit"}

sBuildFailedNotice == "Build failed with exit code"

\* C37: the notification "Build failed with exit code" of a run is issued in
\* the step in which its child exits with a code other than 0, and in no other
\* step; in that step the background logging has not yet begun, and the
\* notification is there in every later stage of it (collecting, saving,
\* uploading, done), whether or not a query, saveLog or the upload has failed.
C37_NotifiedFirst ==
    /\ [][\A r \in RunIds :
            (sBuildFailedNotice \in runs'[r].reports /\ sBuildFailedNotice \notin runs[r].reports)
                => /\ runs[r].child = "running"
                   /\ runs'[r].child = "exited"
                   /\ ~IsSuccess(runs'[r].code)
                   /\ runs[r].bg = "none"
                   /\ sl[r] = IdleCall]_vars
    /\ [](\A r \in RunIds :
            (runs[r].bg # "none" \/ (runs[r].child = "exited" /\ ~IsSuccess(runs[r].code)))
                => sBuildFailedNotice \in runs[r].reports)

\* A failed run whose upload failed, after its saveLog returned, and which has
\* the notification.
C37_Witness ==
    \E r \in RunIds :
        /\ runs[r].code = "1"
        /\ runs[r].bg = "done"
        /\ runs[r].upload = "failed"
        /\ sBuildFailedNotice \in runs[r].reports

(***************************************************************************)
(* What the build terminal is sent.                                        *)
(***************************************************************************)
\* The received chunks as handleOutput decodes them.
ForwardedTexts == {toString(out.received[k].data) : k \in DOMAIN out.received}

\* One text sent to the terminal carries the given chunk with the characters
\* outside printable ASCII, line feed and carriage return removed and every
\* double quote escaped: as one echo command, or as one of its lines.
SentSanitized(sent, text) ==
    LET safe == EscapeQuotes(Sanitize(text))
    IN  \/ sent = <<"e", "c", "h", "o", " ", "\"">> \o safe \o <<"\"">>
        \/ \E i \in DOMAIN SplitLines(safe) : sent = SplitLines(safe)[i]

\* C38: on every platform, each text sent to the build terminal is a chunk
\* received from the child with the characters outside printable ASCII (other
\* than line feed and carriage return) removed and every double quote escaped.
C38_SanitizedFirst ==
    out.variant = "js" =>
        \A i \in DOMAIN out.terminal :
            \E text \in ForwardedTexts : SentSanitized(out.terminal[i], text)

====
